---- MODULE Spec2Model ----
(***************************************************************************)
(* Model of the AGI C core: the neural network engine                      *)
(* (c-core/src/neural_operations.c) and the instrumented allocator         *)
(* (c-core/src/memory_management.c).                                       *)
(*                                                                         *)
(* Heap blocks are named by the allocation site that returned them:        *)
(* <<"network",0>>, <<"layers",0>>, <<"weights",i>>, <<"biases",i>>,       *)
(* <<"input_buffer",0>>, ...  NULL is the null pointer.  C arrays are      *)
(* functions over 0..n-1.  doubles are modelled by integers.               *)
(***************************************************************************)
EXTENDS Integers, Sequences, FiniteSets, TLC

VARIABLES
    phase,          \* lifecycle of the one network of the run: Unbuilt, Failed, Built, Destroyed
    network,        \* contents of the agi_neural_network_t record
    mem,            \* contents of the live double blocks of the network
    adjacent,       \* heap layout: the block that lies right after each scratch buffer
    live,           \* heap blocks obtained and not yet freed
    rand_state,     \* hidden state of rand()
    g_memory_stats, \* the allocator's global counters
    ctor,           \* ghost: what the construction obtained, and the state before it
    call,           \* ghost: the last call made, its arguments and its results
    crashed,        \* the process was killed by a fault
    pc,             \* allocator threads: position of each thread
    reg,            \* allocator threads: locals and registers of each thread
    done_calls,     \* allocator threads: calls each thread has completed
    ghost           \* allocator threads: what a serial execution would have counted

vars == <<phase, network, mem, adjacent, live, rand_state, g_memory_stats,
          ctor, call, crashed, pc, reg, done_calls, ghost>>

netVars == <<phase, network, mem, adjacent, rand_state, ctor, call, crashed>>
mtVars == <<pc, reg, done_calls, ghost>>

(***************************************************************************)
(* Bounds                                                                  *)
(***************************************************************************)
MaxWidth == 2       \* largest layer width of a config
MaxHidden == 1      \* largest hidden_layers_count of a config
MaxCalls == 1       \* allocator calls each thread makes
MaxAllocs == 3      \* successful allocations of a single-threaded run
MaxDim == 2         \* largest matrix dimension m, n, k

Widths == 0..MaxWidth

(***************************************************************************)
(* Basic values                                                            *)
(***************************************************************************)
NULL == <<"NULL", 0>>

AGI_SUCCESS == "AGI_SUCCESS"
AGI_ERROR_NULL_POINTER == "AGI_ERROR_NULL_POINTER"

Zeros(n) == [k \in 0..(n - 1) |-> 0]
ArrLen(a) == Cardinality(DOMAIN a)
SeqToSet(s) == {s[k] : k \in DOMAIN s}
Min(S) == CHOOSE m \in S : \A n \in S : m <= n
Max(S) == CHOOSE m \in S : \A n \in S : m >= n

(***************************************************************************)
(* agi_neural_config_t.  hidden_layer_sizes is a bare pointer in C: the    *)
(* array behind it has a length of its own, which the callee cannot see.   *)
(* The model draws arrays of exactly hidden_layers_count entries and of    *)
(* one entry more.                                                         *)
(***************************************************************************)
agi_neural_config_t ==
    { c \in [ input_size : Widths,
              hidden_layers_count : 0..MaxHidden,
              hidden_layer_sizes : UNION { [0..(n - 1) -> Widths] : n \in 0..(MaxHidden + 1) },
              output_size : Widths ] :
        ArrLen(c.hidden_layer_sizes) \in {c.hidden_layers_count, c.hidden_layers_count + 1} }

NoConfig ==
    [ input_size |-> 0, hidden_layers_count |-> 0,
      hidden_layer_sizes |-> Zeros(0), output_size |-> 0 ]

\* network->layer_count = config->hidden_layers_count + 2
LayerCount(cfg) == cfg.hidden_layers_count + 2

\* The indices of hidden_layer_sizes the layer loop reads: [0] for layer 0
\* and [i] for every layer 0 < i < layer_count - 1.
HiddenReads(cfg) == {0} \cup 1..(LayerCount(cfg) - 2)

\* The reads that fall outside the caller's array.
OutOfBoundsReads(cfg) == HiddenReads(cfg) \ DOMAIN cfg.hidden_layer_sizes

\* config->hidden_layer_sizes[idx]; a read past the end of the array yields
\* the indeterminate value g[idx].
HiddenRead(cfg, idx, g) ==
    IF idx \in DOMAIN cfg.hidden_layer_sizes THEN cfg.hidden_layer_sizes[idx] ELSE g[idx]

LayerOutputSize(cfg, i, g) ==
    IF i = 0 THEN HiddenRead(cfg, 0, g)
    ELSE IF i = LayerCount(cfg) - 1 THEN cfg.output_size
    ELSE HiddenRead(cfg, i, g)

\* current_size at the top of iteration i
CurrentSize_NeverAdvanced(cfg, i, g) == cfg.input_size

CurrentSize(cfg, i, g) ==
    IF i = 0 THEN cfg.input_size ELSE LayerOutputSize(cfg, i - 1, g)

(***************************************************************************)
(* malloc / calloc / free.  oom is the set of allocation sites at which    *)
(* the allocator returns NULL in this call (out of memory, or a zero-size  *)
(* request on an implementation that answers those with NULL).             *)
(***************************************************************************)
NetworkBlock == <<"network", 0>>
LayersBlock == <<"layers", 0>>
WeightsBlock(i) == <<"weights", i>>
BiasesBlock(i) == <<"biases", i>>
InputBuffer == <<"input_buffer", 0>>
OutputBuffer == <<"output_buffer", 0>>
GradientBuffer == <<"gradient_buffer", 0>>
ScratchBlocks == {InputBuffer, OutputBuffer, GradientBuffer}

Alloc(site, oom) == IF site \in oom THEN NULL ELSE site

\* Every outcome of the allocations of one construction that the code can
\* tell apart: nothing fails; the record or the layer array fails; layer i
\* loses its weights, its biases or both; any of the scratch buffers fail.
OomChoices(cfg) ==
    {{}, {NetworkBlock}, {LayersBlock}}
    \cup UNION { {{WeightsBlock(i)}, {BiasesBlock(i)}, {WeightsBlock(i), BiasesBlock(i)}} :
                    i \in 0..(LayerCount(cfg) - 1) }
    \cup (SUBSET ScratchBlocks)

(***************************************************************************)
(* rand(): a linear congruential generator; the weight drawn from it is    *)
(* ((double)rand() / RAND_MAX - 0.5) * 2.0 * scale, a value in             *)
(* [-scale, scale], modelled on the integer grid {-1, 0, 1}.               *)
(***************************************************************************)
RandNext(s) == (5 * s + 3) % 8

RECURSIVE RandAt(_, _)
RandAt(s, n) == IF n = 0 THEN s ELSE RandAt(RandNext(s), n - 1)

XavierWeight(r) == (r % 3) - 1

WeightsSize(cfg, i, g) == CurrentSize(cfg, i, g) * LayerOutputSize(cfg, i, g)

\* rand() calls made before layer i draws its first weight
RECURSIVE RandCallsBefore(_, _, _)
RandCallsBefore(cfg, i, g) ==
    IF i = 0 THEN 0 ELSE RandCallsBefore(cfg, i - 1, g) + WeightsSize(cfg, i - 1, g)

InitialWeights(cfg, i, g, s) ==
    LET first == RandAt(s, RandCallsBefore(cfg, i, g)) IN
    [ j \in 0..(WeightsSize(cfg, i, g) - 1) |-> XavierWeight(RandAt(first, j + 1)) ]

(***************************************************************************)
(* agi_create_neural_network                                               *)
(***************************************************************************)
\* One iteration of the layer loop, up to the allocation check.
NewLayer(cfg, i, g, oom) ==
    [ input_size |-> CurrentSize(cfg, i, g),
      output_size |-> LayerOutputSize(cfg, i, g),
      is_training |-> TRUE,
      weights |-> Alloc(WeightsBlock(i), oom),
      biases |-> Alloc(BiasesBlock(i), oom) ]

LayerAllocFailed(layer) == layer.weights = NULL \/ layer.biases = NULL

\* "Cleanup on error": the pointers handed to free(), in order, when the
\* allocation check of layer i fails.
CleanupOnError_LeakFailing(layers, i) ==
    [ k \in 1..(2 * i) |->
        IF k % 2 = 1 THEN layers[(k - 1) \div 2].weights ELSE layers[(k - 1) \div 2].biases ]
    \o <<LayersBlock, NetworkBlock>>

CleanupOnError(layers, i) ==
    [ k \in 1..(2 * (i + 1)) |->
        IF k % 2 = 1 THEN layers[(k - 1) \div 2].weights ELSE layers[(k - 1) \div 2].biases ]
    \o <<LayersBlock, NetworkBlock>>

\* free(NULL) does nothing: the blocks a sequence of free() calls releases.
Freed(ptrs) == SelectSeq(ptrs, LAMBDA p : p # NULL)

NoMem == [b \in {} |-> Zeros(0)]

NoNetwork ==
    [ layers |-> Zeros(0), layer_count |-> 0, config |-> NoConfig,
      input_buffer |-> NULL, output_buffer |-> NULL, gradient_buffer |-> NULL,
      max_batch_size |-> 0 ]

\* The three scratch buffers and their element counts.
ScratchSize(cfg, block) ==
    IF block = InputBuffer THEN cfg.input_size ELSE cfg.output_size

BuiltNetwork(cfg, layers, oom) ==
    [ layers |-> layers, layer_count |-> LayerCount(cfg), config |-> cfg,
      input_buffer |-> Alloc(InputBuffer, oom),
      output_buffer |-> Alloc(OutputBuffer, oom),
      gradient_buffer |-> Alloc(GradientBuffer, oom),
      max_batch_size |-> 32 ]

\* Contents of the double blocks of a network just built: weights drawn
\* from rand(), biases and scratch buffers zeroed by calloc.
BuiltMem(cfg, g, oom, s) ==
    [ b \in ({WeightsBlock(i) : i \in 0..(LayerCount(cfg) - 1)}
             \cup {BiasesBlock(i) : i \in 0..(LayerCount(cfg) - 1)}
             \cup (ScratchBlocks \ oom)) |->
        IF b[1] = "weights" THEN InitialWeights(cfg, b[2], g, s)
        ELSE IF b[1] = "biases" THEN Zeros(LayerOutputSize(cfg, b[2], g))
        ELSE Zeros(ScratchSize(cfg, b)) ]

\* The indices of hidden_layer_sizes one call reads: none when the network or
\* the layer array could not be allocated, otherwise those of layer 0 up to
\* the layer whose allocation check fails (the read comes before the calloc),
\* the last layer reading output_size instead.
HiddenReadsMade(cfg, oom) ==
    LET n == LayerCount(cfg)
        failed == {i \in 0..(n - 1) : {WeightsBlock(i), BiasesBlock(i)} \cap oom # {}}
        reached == IF failed # {} THEN Min(failed) ELSE n - 1
    IN  IF {NetworkBlock, LayersBlock} \cap oom # {} THEN {}
        ELSE {IF i = 0 THEN 0 ELSE i : i \in (0..reached) \ {n - 1}}

\* The whole function on a present config: what it returns, the blocks it
\* obtained, the blocks it freed, and the allocations that came back NULL.
CreateResult(cfg, g, oom, s) ==
    LET n == LayerCount(cfg)
        layers == [i \in 0..(n - 1) |-> NewLayer(cfg, i, g, oom)]
        failed == {i \in 0..(n - 1) : LayerAllocFailed(layers[i])}
    IN  IF NetworkBlock \in oom THEN
            [ ret |-> NULL, network |-> NoNetwork, mem |-> NoMem, rand |-> s,
              obtained |-> {}, released |-> <<>>, null_allocs |-> {NetworkBlock} ]
        ELSE IF LayersBlock \in oom THEN
            [ ret |-> NULL, network |-> NoNetwork, mem |-> NoMem, rand |-> s,
              obtained |-> {NetworkBlock}, released |-> <<NetworkBlock>>,
              null_allocs |-> {LayersBlock} ]
        ELSE IF failed # {} THEN
            LET f == Min(failed) IN
            [ ret |-> NULL, network |-> NoNetwork, mem |-> NoMem,
              rand |-> RandAt(s, RandCallsBefore(cfg, f, g)),
              obtained |-> ({NetworkBlock, LayersBlock}
                            \cup {layers[j].weights : j \in 0..f}
                            \cup {layers[j].biases : j \in 0..f}) \ {NULL},
              released |-> Freed(CleanupOnError(layers, f)),
              null_allocs |-> {WeightsBlock(f), BiasesBlock(f)} \cap oom ]
        ELSE
            [ ret |-> NetworkBlock,
              network |-> BuiltNetwork(cfg, layers, oom),
              mem |-> BuiltMem(cfg, g, oom, s),
              rand |-> RandAt(s, RandCallsBefore(cfg, n, g)),
              obtained |-> ({NetworkBlock, LayersBlock}
                            \cup {WeightsBlock(i) : i \in 0..(n - 1)}
                            \cup {BiasesBlock(i) : i \in 0..(n - 1)}
                            \cup ScratchBlocks) \ oom,
              released |-> <<>>,
              null_allocs |-> ScratchBlocks \cap oom ]

(***************************************************************************)
(* The allocator's counters (memory_management.c), as the single-threaded  *)
(* program updates them.                                                   *)
(***************************************************************************)
ZeroStats ==
    [ total_memory |-> 0, used_memory |-> 0, peak_memory |-> 0,
      allocation_count |-> 0, deallocation_count |-> 0 ]

\* A slip in agi_aligned_alloc: the peak test made before used_memory is advanced
AllocStats_PeakTestedEarly(stats, size) ==
    [ total_memory |-> stats.total_memory + size,
      used_memory |-> stats.used_memory + size,
      peak_memory |-> IF stats.used_memory > stats.peak_memory
                      THEN stats.used_memory ELSE stats.peak_memory,
      allocation_count |-> stats.allocation_count + 1,
      deallocation_count |-> stats.deallocation_count ]

\* agi_aligned_alloc, the branch taken when aligned_alloc returned a block
AllocStats(stats, size) ==
    LET used == stats.used_memory + size IN
    [ total_memory |-> stats.total_memory + size,
      used_memory |-> used,
      peak_memory |-> IF used > stats.peak_memory THEN used ELSE stats.peak_memory,
      allocation_count |-> stats.allocation_count + 1,
      deallocation_count |-> stats.deallocation_count ]

\* A slip in agi_aligned_free: the region counted out of used_memory as one byte
FreeStats_ReleasesUsed(stats) ==
    [stats EXCEPT !.deallocation_count = @ + 1,
                  !.used_memory = IF @ > 0 THEN @ - 1 ELSE 0]

\* agi_aligned_free on a non-null pointer
FreeStats(stats) == [stats EXCEPT !.deallocation_count = @ + 1]

AlignedBlock(k) == <<"aligned", k>>

\* States of the allocator a program can be in before it builds a network:
\* nothing allocated yet, one region allocated, one region allocated and freed.
PriorAllocatorStates ==
    { [stats |-> ZeroStats, live |-> {}],
      [stats |-> AllocStats(ZeroStats, 1), live |-> {AlignedBlock(1)}],
      [stats |-> FreeStats(AllocStats(ZeroStats, 1)), live |-> {}] }

(***************************************************************************)
(* State                                                                   *)
(***************************************************************************)
Pad == <<"pad", 0>>     \* memory no live block owns

NoLayout == [b \in {InputBuffer, OutputBuffer} |-> Pad]

\* What agi_forward_pass must leave alone: the layers' shapes, weights and
\* biases, the layer count and the config.
Frame(net, m) ==
    [ layers |-> net.layers, layer_count |-> net.layer_count, config |-> net.config,
      params |-> [b \in {c \in DOMAIN m : c[1] \in {"weights", "biases"}} |-> m[b]] ]

NoFrame == Frame(NoNetwork, NoMem)

\* The caller's agi_memory_stats_t before agi_get_memory_stats fills it; the
\* ratio is the fraction num / den.
NoSnapshot ==
    [ total_memory |-> 0, used_memory |-> 0, peak_memory |-> 0,
      allocation_count |-> 0, deallocation_count |-> 0,
      fragmentation_ratio |-> [num |-> 0, den |-> 1] ]

NoCall ==
    [ op |-> "none", ret |-> NULL, status |-> "none", config_present |-> FALSE, cfg |-> NoConfig,
      null_allocs |-> {}, released |-> <<>>, pre_live |-> {},
      x |-> Zeros(0), target |-> Zeros(0), output |-> Zeros(0),
      loss |-> [num |-> 0, den |-> 1], out_of_bounds |-> FALSE,
      expected |-> Zeros(0), forward_output |-> Zeros(0), pre_frame |-> NoFrame,
      size |-> 0, ptr |-> NULL, pre_stats |-> ZeroStats, snapshot |-> NoSnapshot,
      dims |-> [m |-> 0, n |-> 0, k |-> 0], a |-> Zeros(0), b |-> Zeros(0),
      pre_result |-> Zeros(0), result |-> Zeros(0), hidden_reads |-> {} ]

NoCtor == [obtained |-> {}, pre_live |-> {}, pre_stats |-> ZeroStats]

Threads == {1, 2}

InitThreads ==
    /\ pc = [t \in Threads |-> "idle"]
    /\ reg = [t \in Threads |-> [size |-> 0, ptr |-> NULL, tmp |-> 0, held |-> {}]]
    /\ done_calls = [t \in Threads |-> 0]
    /\ ghost = [allocs |-> 0, bytes |-> 0, frees |-> 0, max_used |-> 0]

InitNetwork ==
    /\ phase = "Unbuilt"
    /\ network = NoNetwork
    /\ mem = NoMem
    /\ adjacent = NoLayout
    /\ rand_state = 1
    /\ ctor = NoCtor
    /\ call = NoCall
    /\ crashed = FALSE

InitBuild ==
    /\ InitNetwork
    /\ InitThreads
    /\ \E prior \in PriorAllocatorStates :
          /\ g_memory_stats = prior.stats
          /\ live = prior.live

(***************************************************************************)
(* Memory as agi_forward_pass sees it.  A pointer b with index idx denotes *)
(* element idx of block b while idx is below the block's element count.    *)
(* Past the end it denotes whatever the heap layout put there: an element  *)
(* of the block adjacent[b] that follows b, or memory no live block owns.  *)
(***************************************************************************)
CallerOutput == <<"caller_output", 0>>
PadOf(b) == IF b = InputBuffer THEN <<"pad", 1>> ELSE <<"pad", 2>>

InBounds(m, b, idx) == idx \in DOMAIN m[b]

Resolve(m, adj, b, idx) ==
    IF InBounds(m, b, idx) THEN <<b, idx>>
    ELSE LET k == idx - ArrLen(m[b])
             next == IF b \in DOMAIN adj THEN adj[b] ELSE Pad
         IN  IF next # Pad /\ k \in DOMAIN m[next] THEN <<next, k>> ELSE <<PadOf(b), idx>>

Load(m, adj, b, idx) ==
    LET c == Resolve(m, adj, b, idx) IN m[c[1]][c[2]]

Store(m, adj, b, idx, val) ==
    LET c == Resolve(m, adj, b, idx) IN [m EXCEPT ![c[1]][c[2]] = val]

\* The memory of one call: the network's blocks, the caller's output array
\* and the memory past the end of the two scratch buffers.
WorkingMemory(m, out_size) ==
    [ b \in DOMAIN m \cup {CallerOutput, PadOf(InputBuffer), PadOf(OutputBuffer)} |->
        IF b \in DOMAIN m THEN m[b]
        ELSE IF b = CallerOutput THEN Zeros(out_size)
        ELSE Zeros(MaxWidth) ]

\* The state of a pass: memory, whether an access fell outside its block,
\* and whether a null pointer was dereferenced.
PassState(m) == [m |-> m, oob |-> FALSE, fault |-> FALSE]

\* b[idx] = val
Write(st, adj, b, idx, val) ==
    IF b = NULL THEN [st EXCEPT !.fault = TRUE]
    ELSE [ m |-> Store(st.m, adj, b, idx, val),
           oob |-> st.oob \/ ~InBounds(st.m, b, idx),
           fault |-> st.fault ]

\* the value of b[idx], and the pass state after reading it
Read(st, adj, b, idx) == IF b = NULL THEN 0 ELSE Load(st.m, adj, b, idx)

AfterRead(st, b, idx) ==
    IF b = NULL THEN [st EXCEPT !.fault = TRUE]
    ELSE [st EXCEPT !.oob = @ \/ ~InBounds(st.m, b, idx)]

\* memcpy(dst, src, n * sizeof(double)) with src an array of the caller
RECURSIVE CopyIn(_, _, _, _, _, _)
CopyIn(st, adj, dst, src, n, i) ==
    IF i = n THEN st ELSE CopyIn(Write(st, adj, dst, i, src[i]), adj, dst, src, n, i + 1)

\* memcpy(dst, src, n * sizeof(double)) between blocks, one element after the other
RECURSIVE CopyBlock(_, _, _, _, _, _)
CopyBlock(st, adj, dst, src, n, i) ==
    IF i = n THEN st
    ELSE CopyBlock(Write(AfterRead(st, src, i), adj, dst, i, Read(st, adj, src, i)),
                   adj, dst, src, n, i + 1)

\* current_output[i] += layer->weights[i * layer->input_size + j] * current_input[j], for every j
RECURSIVE DotLoop(_, _, _, _, _, _, _)
DotLoop(st, adj, layer, cin, cout, i, j) ==
    IF j = layer.input_size THEN st
    ELSE LET sum == Read(st, adj, cout, i)
                    + Read(st, adj, layer.weights, i * layer.input_size + j)
                      * Read(st, adj, cin, j)
         IN  DotLoop(Write(AfterRead(AfterRead(st, cout, i), cin, j), adj, cout, i, sum),
                     adj, layer, cin, cout, i, j + 1)

\* The "Standard implementation" loop (the #else branch, compiled when
\* AGI_AVX2_SUPPORT is not defined): current_output[i] = 0.0, then the dot product
RECURSIVE MatMulLoop(_, _, _, _, _, _)
MatMulLoop(st, adj, layer, cin, cout, i) ==
    IF i = layer.output_size THEN st
    ELSE MatMulLoop(DotLoop(Write(st, adj, cout, i, 0), adj, layer, cin, cout, i, 0),
                    adj, layer, cin, cout, i + 1)

\* current_output[i] += layer->biases[i]
RECURSIVE BiasLoop(_, _, _, _, _)
BiasLoop(st, adj, layer, cout, i) ==
    IF i = layer.output_size THEN st
    ELSE BiasLoop(Write(AfterRead(st, cout, i), adj, cout, i,
                        Read(st, adj, cout, i) + Read(st, adj, layer.biases, i)),
                  adj, layer, cout, i + 1)

ReLU(v) == IF v > 0 THEN v ELSE 0

\* current_output[i] = current_output[i] > 0.0 ? current_output[i] : 0.0
RECURSIVE ActivationLoop(_, _, _, _, _)
ActivationLoop(st, adj, layer, cout, i) ==
    IF i = layer.output_size THEN st
    ELSE ActivationLoop(Write(AfterRead(st, cout, i), adj, cout, i,
                              ReLU(Read(st, adj, cout, i))),
                        adj, layer, cout, i + 1)

\* The loop over the layers, swapping the two buffers after each; the
\* result carries the buffer the last layer wrote (current_input after the swap).
RECURSIVE LayerLoop(_, _, _, _, _, _)
LayerLoop(st, adj, net, cin, cout, layer_idx) ==
    IF layer_idx = net.layer_count THEN [st |-> st, current_input |-> cin]
    ELSE LET layer == net.layers[layer_idx] IN
         LayerLoop(ActivationLoop(
                       BiasLoop(MatMulLoop(st, adj, layer, cin, cout, 0),
                                adj, layer, cout, 0),
                       adj, layer, cout, 0),
                   adj, net, cout, cin, layer_idx + 1)

\* agi_forward_pass(network, input, output, batch_size) on non-null arguments;
\* output is the pointer the result is copied to.
ForwardPass(net, m, adj, input, output) ==
    LET st0 == PassState(WorkingMemory(m, net.config.output_size))
        st1 == CopyIn(st0, adj, net.input_buffer, input, net.config.input_size, 0)
        run == LayerLoop(st1, adj, net, net.input_buffer, net.output_buffer, 0)
    IN  CopyBlock(run.st, adj, output, run.current_input, net.config.output_size, 0)

\* The network's blocks as a pass leaves them.
NetworkMemory(st, m) == [b \in DOMAIN m |-> st.m[b]]

\* The caller's output array after a pass.
OutputOf(st) == st.m[CallerOutput]

(***************************************************************************)
(* What the network computes: y[i] = max(0, sum_j W[i,j] * x[j] + b[i]),   *)
(* layer after layer, independently of any buffer.                         *)
(***************************************************************************)
RECURSIVE Sum(_, _)
Sum(f, n) == IF n = 0 THEN 0 ELSE f[n - 1] + Sum(f, n - 1)

LayerFunction(layer, m, v) ==
    [ i \in 0..(layer.output_size - 1) |->
        ReLU(Sum([j \in 0..(layer.input_size - 1) |->
                     m[layer.weights][i * layer.input_size + j] * v[j]],
                 layer.input_size)
             + m[layer.biases][i]) ]

RECURSIVE NetworkFunction(_, _, _, _)
NetworkFunction(net, m, v, layer_idx) ==
    IF layer_idx = net.layer_count THEN v
    ELSE NetworkFunction(net, m, LayerFunction(net.layers[layer_idx], m, v), layer_idx + 1)

\* Heap layouts of a network with blocks m: the block the allocator placed
\* right after input_buffer (output_buffer, allocated next, or none) and
\* right after output_buffer (gradient_buffer, allocated next, the weights
\* of layer 0, or none).
HeapLayouts(m) ==
    { adj \in [{InputBuffer, OutputBuffer} -> {Pad} \cup DOMAIN m] :
        /\ adj[InputBuffer] \in {Pad, OutputBuffer}
        /\ adj[OutputBuffer] \in {Pad, GradientBuffer, WeightsBlock(0)} }

(***************************************************************************)
(* Actions of the network engine                                           *)
(***************************************************************************)
\* agi_create_neural_network(config); any_layout: the allocator may place the
\* new blocks in any order (otherwise no block follows a scratch buffer).
agi_create_neural_network(any_layout) ==
    /\ phase = "Unbuilt"
    /\ ~crashed
    /\ \/ \* if (!config) return NULL;
          /\ call' = [NoCall EXCEPT !.op = "create", !.pre_live = live]
          /\ phase' = "Failed"
          /\ UNCHANGED <<network, mem, adjacent, live, rand_state, ctor, crashed>>
       \/ \E cfg \in agi_neural_config_t :
          \E g \in [OutOfBoundsReads(cfg) -> Widths] :
          \E oom \in OomChoices(cfg) :
          \E r \in {CreateResult(cfg, g, oom, rand_state)} :
            /\ call' = [NoCall EXCEPT !.op = "create", !.ret = r.ret,
                          !.config_present = TRUE, !.cfg = cfg,
                          !.null_allocs = r.null_allocs, !.released = r.released,
                          !.pre_live = live,
                          !.out_of_bounds = (OutOfBoundsReads(cfg) # {}),
                          !.hidden_reads = HiddenReadsMade(cfg, oom)]
            /\ ctor' = [obtained |-> r.obtained, pre_live |-> live,
                        pre_stats |-> g_memory_stats]
            /\ live' = (live \cup r.obtained) \ SeqToSet(r.released)
            /\ network' = r.network
            /\ mem' = r.mem
            /\ rand_state' = r.rand
            /\ phase' = IF r.ret = NULL THEN "Failed" ELSE "Built"
            /\ adjacent' \in (IF r.ret # NULL /\ any_layout THEN HeapLayouts(r.mem) ELSE {NoLayout})
            /\ UNCHANGED crashed
       \/ \* the read past the end of hidden_layer_sizes faults
          /\ \E cfg \in agi_neural_config_t : OutOfBoundsReads(cfg) # {}
          /\ crashed' = TRUE
          /\ call' = [NoCall EXCEPT !.op = "create", !.config_present = TRUE,
                         !.pre_live = live, !.out_of_bounds = TRUE]
          /\ UNCHANGED <<phase, network, mem, adjacent, live, rand_state, ctor>>
    /\ UNCHANGED <<g_memory_stats, mtVars>>

\* The pointers agi_destroy_neural_network hands to free(), in order.
DestroyFrees_KeepGradient(net) ==
    [ k \in 1..(2 * net.layer_count) |->
        IF k % 2 = 1 THEN net.layers[(k - 1) \div 2].weights
        ELSE net.layers[(k - 1) \div 2].biases ]
    \o <<LayersBlock, net.input_buffer, net.output_buffer, NetworkBlock>>

DestroyFrees(net) ==
    [ k \in 1..(2 * net.layer_count) |->
        IF k % 2 = 1 THEN net.layers[(k - 1) \div 2].weights
        ELSE net.layers[(k - 1) \div 2].biases ]
    \o <<LayersBlock, net.input_buffer, net.output_buffer, net.gradient_buffer,
         NetworkBlock>>

agi_destroy_neural_network ==
    /\ ~crashed
    /\ \/ \* if (!network) return AGI_ERROR_NULL_POINTER;
          /\ phase = "Failed"
          /\ call.op = "create"
          /\ call' = [NoCall EXCEPT !.op = "destroy", !.status = AGI_ERROR_NULL_POINTER,
                         !.pre_live = live]
          /\ UNCHANGED <<phase, network, mem, adjacent, live>>
       \/ /\ phase = "Built"
          /\ LET released == Freed(DestroyFrees(network)) IN
             /\ call' = [NoCall EXCEPT !.op = "destroy", !.status = AGI_SUCCESS,
                            !.released = released, !.pre_live = live]
             /\ live' = live \ SeqToSet(released)
          /\ phase' = "Destroyed"
          /\ network' = NoNetwork
          /\ mem' = NoMem
          /\ adjacent' = NoLayout
    /\ UNCHANGED <<rand_state, ctor, crashed, g_memory_stats, mtVars>>

InputValues == {-1, 1}
TargetValues == {0}

\* agi_forward_pass(network, input, output, batch_size)
agi_forward_pass ==
    /\ ~crashed
    /\ \/ \* if (!network || !input || !output) return AGI_ERROR_NULL_POINTER;
          /\ phase \in {"Failed", "Built"}
          /\ call' = [NoCall EXCEPT !.op = "forward", !.status = AGI_ERROR_NULL_POINTER,
                         !.pre_live = live, !.pre_frame = Frame(network, mem)]
          /\ UNCHANGED <<mem, crashed>>
       \/ /\ phase = "Built"
          /\ \E x \in [0..(network.config.input_size - 1) -> InputValues] :
             \E st \in {ForwardPass(network, mem, adjacent, x, CallerOutput)} :
             \E killed \in (IF st.fault THEN {TRUE} ELSE IF st.oob THEN BOOLEAN ELSE {FALSE}) :
                /\ crashed' = killed
                /\ mem' = IF killed THEN mem ELSE NetworkMemory(st, mem)
                /\ call' = [NoCall EXCEPT !.op = "forward", !.status = AGI_SUCCESS,
                               !.pre_live = live, !.x = x,
                               !.output = IF killed THEN Zeros(0) ELSE OutputOf(st),
                               !.out_of_bounds = st.oob,
                               !.expected = NetworkFunction(network, mem, x, 0),
                               !.pre_frame = Frame(network, mem)]
    /\ UNCHANGED <<phase, network, adjacent, live, rand_state, ctor, g_memory_stats, mtVars>>

\* The loss loop of agi_train_batch: the sum of (target[i] - output_buffer[i])^2
RECURSIVE SquaredError(_, _, _, _, _)
SquaredError(st, adj, net, target, i) ==
    IF i = 0 THEN 0
    ELSE LET diff == target[i - 1] - Read(st, adj, net.output_buffer, i - 1) IN
         diff * diff + SquaredError(st, adj, net, target, i - 1)

\* agi_backward_pass(network, input, target, gradients, batch_size):
\* gradients[i] = target[i] - input[i] unless a pointer is null
RECURSIVE GradientLoop(_, _, _, _, _, _, _)
GradientLoop(st, adj, input, target, gradients, n, i) ==
    IF i = n THEN st
    ELSE GradientLoop(Write(AfterRead(st, input, i), adj, gradients, i,
                            target[i] - Read(st, adj, input, i)),
                      adj, input, target, gradients, n, i + 1)

BackwardPass(st, adj, net, input, target, gradients) ==
    IF input = NULL \/ gradients = NULL THEN st
    ELSE GradientLoop(st, adj, input, target, gradients, net.config.output_size, 0)

\* agi_train_batch on non-null arguments: the pass state it leaves and the
\* loss it returns, total_loss / output_size, as a fraction (den = 0: NaN).
TrainBatch(net, m, adj, input, target) ==
    LET fwd == IF net.output_buffer = NULL
               THEN PassState(WorkingMemory(m, net.config.output_size))
               ELSE ForwardPass(net, m, adj, input, net.output_buffer)
        n == net.config.output_size
        read == IF n > 0 THEN AfterRead(fwd, net.output_buffer, 0) ELSE fwd
    IN  [ loss |-> [num |-> SquaredError(fwd, adj, net, target, n), den |-> n],
          st |-> BackwardPass(read, adj, net, net.output_buffer, target,
                              net.gradient_buffer) ]

\* agi_train_batch(network, input, target, batch_size)
agi_train_batch ==
    /\ ~crashed
    /\ \/ \* if (!network || !input || !target) return -1.0;
          /\ phase \in {"Failed", "Built"}
          /\ call' = [NoCall EXCEPT !.op = "train", !.loss = [num |-> -1, den |-> 1],
                         !.pre_live = live, !.pre_frame = Frame(network, mem)]
          /\ UNCHANGED <<mem, crashed>>
       \/ /\ phase = "Built"
          /\ \E x \in [0..(network.config.input_size - 1) -> InputValues] :
             \E alone \in {ForwardPass(network, mem, adjacent, x, CallerOutput)} :
             \E target \in [0..(network.config.output_size - 1) -> TargetValues]
                           \cup (IF alone.fault THEN {} ELSE {OutputOf(alone)}) :
             \E r \in {TrainBatch(network, mem, adjacent, x, target)} :
             \E killed \in (IF r.st.fault THEN {TRUE} ELSE IF r.st.oob THEN BOOLEAN ELSE {FALSE}) :
                /\ crashed' = killed
                /\ mem' = IF killed THEN mem ELSE NetworkMemory(r.st, mem)
                /\ call' = [NoCall EXCEPT !.op = "train", !.status = AGI_SUCCESS,
                               !.pre_live = live, !.x = x, !.target = target,
                               !.loss = r.loss,
                               !.out_of_bounds = r.st.oob,
                               !.expected = NetworkFunction(network, mem, x, 0),
                               !.forward_output = IF alone.fault THEN Zeros(0) ELSE OutputOf(alone),
                               !.pre_frame = Frame(network, mem)]
    /\ UNCHANGED <<phase, network, adjacent, live, rand_state, ctor, g_memory_stats, mtVars>>

NextBuild ==
    \/ agi_create_neural_network(FALSE)
    \/ agi_destroy_neural_network

SpecBuild == InitBuild /\ [][NextBuild]_vars

Init ==
    /\ InitNetwork
    /\ InitThreads
    /\ g_memory_stats = ZeroStats
    /\ live = {}

Next ==
    \/ agi_create_neural_network(TRUE)
    \/ agi_destroy_neural_network
    \/ agi_forward_pass
    \/ agi_train_batch

Spec == Init /\ [][Next]_vars

(***************************************************************************)
(* The allocator called from several threads (memory_management.c).        *)
(* g_memory_stats is a plain static struct: the file takes no lock and     *)
(* uses no atomic, so "counter += size" is a load of the counter into a    *)
(* register followed by a store of the sum, and the threads' loads and     *)
(* stores interleave.  Each thread makes up to MaxCalls calls.             *)
(***************************************************************************)
AllocSizes == {1, 2}

\* The counters after n calls agi_aligned_alloc(1, alignment) made one after
\* the other.
RECURSIVE SerialAllocs(_)
SerialAllocs(n) == IF n = 0 THEN ZeroStats ELSE AllocStats(SerialAllocs(n - 1), 1)

\* The threads start after the program has allocated, serially, one region
\* of size 1 for each of them; thread t holds region t.
InitMT ==
    /\ InitNetwork
    /\ pc = [t \in Threads |-> "idle"]
    /\ reg = [t \in Threads |-> [size |-> 0, ptr |-> NULL, tmp |-> 0, held |-> {AlignedBlock(t)}]]
    /\ done_calls = [t \in Threads |-> 0]
    /\ live = {AlignedBlock(t) : t \in Threads}
    /\ g_memory_stats = SerialAllocs(Cardinality(Threads))
    /\ ghost = [allocs |-> Cardinality(Threads), bytes |-> Cardinality(Threads),
                frees |-> 0, max_used |-> Cardinality(Threads)]

\* counter op= ...: the load half
LoadCounter(t, at, field, next) ==
    /\ pc[t] = at
    /\ reg' = [reg EXCEPT ![t].tmp = g_memory_stats[field]]
    /\ pc' = [pc EXCEPT ![t] = next]
    /\ UNCHANGED <<g_memory_stats, live, done_calls, ghost>>

\* counter op= ...: the store half
StoreCounter(t, at, field, value, next) ==
    /\ pc[t] = at
    /\ g_memory_stats' = [g_memory_stats EXCEPT ![field] = value]
    /\ pc' = [pc EXCEPT ![t] = next]
    /\ ghost' = IF field = "used_memory"
                THEN [ghost EXCEPT !.max_used = Max({@, value})]
                ELSE ghost
    /\ UNCHANGED <<reg, live, done_calls>>

\* return ptr;
AllocReturn(t) ==
    /\ pc' = [pc EXCEPT ![t] = "idle"]
    /\ reg' = [reg EXCEPT ![t].held = @ \cup {reg[t].ptr}]
    /\ done_calls' = [done_calls EXCEPT ![t] = @ + 1]

\* void* ptr = aligned_alloc(alignment, size); if (ptr) { ... } return ptr;
AlignedAllocCall(t) ==
    /\ pc[t] = "idle"
    /\ done_calls[t] < MaxCalls
    /\ \E size \in AllocSizes :
       \E ptr \in {NULL, AlignedBlock(ghost.allocs + 1)} :
          IF ptr = NULL
          THEN /\ done_calls' = [done_calls EXCEPT ![t] = @ + 1]
               /\ reg' = [reg EXCEPT ![t].size = size, ![t].ptr = NULL]
               /\ UNCHANGED <<pc, live, ghost>>
          ELSE /\ pc' = [pc EXCEPT ![t] = "total_load"]
               /\ reg' = [reg EXCEPT ![t].size = size, ![t].ptr = ptr]
               /\ live' = live \cup {ptr}
               /\ ghost' = [ghost EXCEPT !.allocs = @ + 1, !.bytes = @ + size]
               /\ UNCHANGED done_calls
    /\ UNCHANGED g_memory_stats

\* if (g_memory_stats.used_memory > g_memory_stats.peak_memory): the loaded
\* used_memory is in tmp; the branch not taken returns.
PeakCompare(t) ==
    /\ pc[t] = "peak_compare"
    /\ IF reg[t].tmp > g_memory_stats.peak_memory
       THEN /\ pc' = [pc EXCEPT ![t] = "peak_store"]
            /\ UNCHANGED <<reg, done_calls>>
       ELSE AllocReturn(t)
    /\ UNCHANGED <<g_memory_stats, live, ghost>>

\* g_memory_stats.peak_memory = g_memory_stats.used_memory; return ptr;
PeakStore(t) ==
    /\ pc[t] = "peak_store"
    /\ g_memory_stats' = [g_memory_stats EXCEPT !.peak_memory = reg[t].tmp]
    /\ AllocReturn(t)
    /\ UNCHANGED <<live, ghost>>

\* agi_aligned_alloc(size, alignment), one step of thread t
agi_aligned_alloc(t) ==
    /\ ~crashed
    /\ \/ AlignedAllocCall(t)
       \/ LoadCounter(t, "total_load", "total_memory", "total_store")
       \/ StoreCounter(t, "total_store", "total_memory", reg[t].tmp + reg[t].size, "used_load")
       \/ LoadCounter(t, "used_load", "used_memory", "used_store")
       \/ StoreCounter(t, "used_store", "used_memory", reg[t].tmp + reg[t].size, "count_load")
       \/ LoadCounter(t, "count_load", "allocation_count", "count_store")
       \/ StoreCounter(t, "count_store", "allocation_count", reg[t].tmp + 1, "peak_load")
       \/ LoadCounter(t, "peak_load", "used_memory", "peak_compare")
       \/ PeakCompare(t)
       \/ PeakStore(t)
    /\ UNCHANGED netVars

\* if (!ptr) return AGI_ERROR_NULL_POINTER; the caller passes NULL or a
\* block it got from agi_aligned_alloc and has not freed.
AlignedFreeCall(t) ==
    /\ pc[t] = "idle"
    /\ done_calls[t] < MaxCalls
    /\ \E ptr \in {NULL} \cup reg[t].held :
          IF ptr = NULL
          THEN /\ done_calls' = [done_calls EXCEPT ![t] = @ + 1]
               /\ reg' = [reg EXCEPT ![t].ptr = NULL]
               /\ UNCHANGED <<pc, ghost>>
          ELSE /\ pc' = [pc EXCEPT ![t] = "dealloc_load"]
               /\ reg' = [reg EXCEPT ![t].ptr = ptr, ![t].held = @ \ {ptr}]
               /\ ghost' = [ghost EXCEPT !.frees = @ + 1]
               /\ UNCHANGED done_calls
    /\ UNCHANGED <<g_memory_stats, live>>

\* g_memory_stats.deallocation_count++ (the store half); free(ptr);
\* return AGI_SUCCESS;
DeallocStore(t) ==
    /\ pc[t] = "dealloc_store"
    /\ g_memory_stats' = [g_memory_stats EXCEPT !.deallocation_count = reg[t].tmp + 1]
    /\ live' = live \ {reg[t].ptr}
    /\ pc' = [pc EXCEPT ![t] = "idle"]
    /\ done_calls' = [done_calls EXCEPT ![t] = @ + 1]
    /\ UNCHANGED <<reg, ghost>>

\* agi_aligned_free(ptr), one step of thread t
agi_aligned_free(t) ==
    /\ ~crashed
    /\ \/ AlignedFreeCall(t)
       \/ LoadCounter(t, "dealloc_load", "deallocation_count", "dealloc_store")
       \/ DeallocStore(t)
    /\ UNCHANGED netVars

NextMT ==
    \E t \in Threads :
        \/ agi_aligned_alloc(t)
        \/ agi_aligned_free(t)

SpecMT == InitMT /\ [][NextMT]_vars

(***************************************************************************)
(* The allocator in single-threaded use: every call runs to completion     *)
(* before the next one starts.  A run makes up to MaxAllocs successful     *)
(* allocations; the counters are size_t and stay far below SIZE_MAX.       *)
(***************************************************************************)
\* void* ptr = aligned_alloc(alignment, size); a zero size may yield a block
RequestSizes == {0} \cup AllocSizes

\* agi_aligned_alloc(size, alignment), the whole call
AlignedAlloc ==
    /\ ~crashed
    /\ g_memory_stats.allocation_count < MaxAllocs
    /\ \E size \in RequestSizes :
       \E ptr \in {NULL, AlignedBlock(g_memory_stats.allocation_count + 1)} :
          /\ g_memory_stats' = IF ptr # NULL THEN AllocStats(g_memory_stats, size)
                               ELSE g_memory_stats
          /\ live' = IF ptr # NULL THEN live \cup {ptr} ELSE live
          /\ call' = [NoCall EXCEPT !.op = "aligned_alloc", !.size = size, !.ptr = ptr,
                         !.pre_stats = g_memory_stats, !.pre_live = live]
    /\ UNCHANGED <<phase, network, mem, adjacent, rand_state, ctor, crashed, mtVars>>

\* agi_aligned_free(ptr), the whole call; ptr is NULL or a region obtained
\* from agi_aligned_alloc and not yet freed
AlignedFree ==
    /\ ~crashed
    /\ \E ptr \in {NULL} \cup {b \in live : b[1] = "aligned"} :
          /\ g_memory_stats' = IF ptr # NULL THEN FreeStats(g_memory_stats)
                               ELSE g_memory_stats
          /\ live' = live \ {ptr}
          /\ call' = [NoCall EXCEPT !.op = "aligned_free", !.ptr = ptr,
                         !.status = IF ptr = NULL THEN AGI_ERROR_NULL_POINTER
                                    ELSE AGI_SUCCESS,
                         !.pre_stats = g_memory_stats, !.pre_live = live]
    /\ UNCHANGED <<phase, network, mem, adjacent, rand_state, ctor, crashed, mtVars>>

\* A slip in agi_get_memory_stats: the ratio of used to peak
FragmentationRatio_UsedOverPeak(stats) ==
    IF stats.peak_memory > 0
    THEN [num |-> stats.used_memory, den |-> stats.peak_memory]
    ELSE [num |-> 0, den |-> 1]

\* The fragmentation ratio agi_get_memory_stats computes, as a fraction
FragmentationRatio(stats) ==
    IF stats.peak_memory > 0
    THEN [num |-> stats.peak_memory - stats.used_memory, den |-> stats.peak_memory]
    ELSE [num |-> 0, den |-> 1]

\* *stats = g_memory_stats; then the ratio
Snapshot(stats) ==
    [ total_memory |-> stats.total_memory, used_memory |-> stats.used_memory,
      peak_memory |-> stats.peak_memory, allocation_count |-> stats.allocation_count,
      deallocation_count |-> stats.deallocation_count,
      fragmentation_ratio |-> FragmentationRatio(stats) ]

\* agi_get_memory_stats(stats)
agi_get_memory_stats ==
    /\ ~crashed
    /\ \E stats_present \in BOOLEAN :
          call' = [NoCall EXCEPT !.op = "get_memory_stats",
                      !.config_present = stats_present,
                      !.status = IF stats_present THEN AGI_SUCCESS
                                 ELSE AGI_ERROR_NULL_POINTER,
                      !.snapshot = IF stats_present THEN Snapshot(g_memory_stats)
                                   ELSE NoSnapshot,
                      !.pre_stats = g_memory_stats, !.pre_live = live]
    /\ UNCHANGED <<g_memory_stats, live>>
    /\ UNCHANGED <<phase, network, mem, adjacent, rand_state, ctor, crashed, mtVars>>

\* agi_optimize_memory()
agi_optimize_memory ==
    /\ ~crashed
    /\ call' = [NoCall EXCEPT !.op = "optimize_memory", !.status = AGI_SUCCESS,
                   !.pre_stats = g_memory_stats, !.pre_live = live]
    /\ UNCHANGED <<g_memory_stats, live>>
    /\ UNCHANGED <<phase, network, mem, adjacent, rand_state, ctor, crashed, mtVars>>

NextAlloc ==
    \/ AlignedAlloc
    \/ AlignedFree
    \/ agi_get_memory_stats
    \/ agi_optimize_memory

SpecAlloc == Init /\ [][NextAlloc]_vars

(***************************************************************************)
(* The matrix-multiply kernel (simd_operations.c).  a is m x k, b is k x n *)
(* and result is m x n, all row-major; result holds whatever the caller    *)
(* left in it.                                                             *)
(***************************************************************************)
Dims == 1..MaxDim
MatrixValues == {-1, 1}
ResultValues == {0, 1}

\* The body of agi_matrix_multiply_simd after the NULL test: "return
\* AGI_SUCCESS;" and nothing else, so result keeps its content.
MatrixMultiplyBody(a, b, result, m, n, k) == result

\* The caller's arguments: the dimensions, the two operands, the content of
\* result before the call, and whether all three pointers are non-null.
MatrixArguments ==
    UNION { { [NoCall EXCEPT !.op = "matrix_multiply_args",
                  !.config_present = present,
                  !.dims = [m |-> m, n |-> n, k |-> k],
                  !.a = a, !.b = b, !.pre_result = result, !.result = result] :
                a \in [0..(m * k - 1) -> MatrixValues],
                b \in [0..(k * n - 1) -> MatrixValues],
                result \in [0..(m * n - 1) -> ResultValues],
                present \in BOOLEAN } :
            m \in Dims, n \in Dims, k \in Dims }

InitKernel ==
    /\ phase = "Unbuilt"
    /\ network = NoNetwork
    /\ mem = NoMem
    /\ adjacent = NoLayout
    /\ rand_state = 1
    /\ ctor = NoCtor
    /\ crashed = FALSE
    /\ InitThreads
    /\ g_memory_stats = ZeroStats
    /\ live = {}
    /\ call \in MatrixArguments

\* agi_matrix_multiply_simd(a, b, result, m, n, k)
agi_matrix_multiply_simd ==
    /\ ~crashed
    /\ call.op = "matrix_multiply_args"
    /\ call' = [call EXCEPT !.op = "matrix_multiply_simd",
                   !.status = IF call.config_present THEN AGI_SUCCESS
                              ELSE AGI_ERROR_NULL_POINTER,
                   !.result = IF call.config_present
                              THEN MatrixMultiplyBody(call.a, call.b, call.pre_result,
                                                      call.dims.m, call.dims.n, call.dims.k)
                              ELSE call.pre_result]
    /\ UNCHANGED <<g_memory_stats, live>>
    /\ UNCHANGED <<phase, network, mem, adjacent, rand_state, ctor, crashed, mtVars>>

NextKernel == agi_matrix_multiply_simd

SpecKernel == InitKernel /\ [][NextKernel]_vars

(***************************************************************************)
(* Properties of construction and teardown                                 *)
(***************************************************************************)
NoDuplicates(s) == \A a, b \in DOMAIN s : a # b => s[a] # s[b]

CreateReturned == call.op = "create" /\ ~crashed

\* C1: after agi_create_neural_network succeeds on a config with
\* hidden_layers_count = H the network has H + 2 layers, layer 0 takes
\* config.input_size inputs, the last layer gives config.output_size outputs
\* and every later layer takes as many inputs as the layer before it gives.
C1_LayerChain ==
    (CreateReturned /\ call.ret # NULL) =>
        LET n == network.layer_count IN
        /\ n = call.cfg.hidden_layers_count + 2
        /\ DOMAIN network.layers = 0..(n - 1)
        /\ network.layers[0].input_size = call.cfg.input_size
        /\ network.layers[n - 1].output_size = call.cfg.output_size
        /\ \A i \in 1..(n - 1) :
              network.layers[i].input_size = network.layers[i - 1].output_size

C1_Witness ==
    /\ CreateReturned /\ call.ret # NULL
    /\ call.cfg.hidden_layers_count = 1
    /\ network.layers[1].input_size # call.cfg.input_size
    /\ network.layers[1].output_size # call.cfg.output_size

\* A config construction is required to reject: a zero width, or a
\* hidden-layer array that does not have hidden_layers_count entries.
InvalidConfig(cfg) ==
    \/ cfg.input_size = 0
    \/ cfg.output_size = 0
    \/ \E k \in DOMAIN cfg.hidden_layer_sizes : cfg.hidden_layer_sizes[k] = 0
    \/ ArrLen(cfg.hidden_layer_sizes) # cfg.hidden_layers_count

\* C2: agi_create_neural_network returns NULL, with nothing left allocated,
\* whenever a width of the config is zero or the hidden-layer array does not
\* have exactly hidden_layers_count entries.
C2_RejectsInvalidConfig ==
    (CreateReturned /\ call.config_present /\ InvalidConfig(call.cfg)) =>
        (call.ret = NULL /\ live = call.pre_live)

\* C3: agi_create_neural_network returns NULL if any allocation it performs
\* fails, and never returns a network one of whose buffers is absent.
C3_NullWhenAnyAllocationFails ==
    /\ (CreateReturned /\ call.null_allocs # {}) => call.ret = NULL
    /\ (CreateReturned /\ call.ret # NULL) =>
          /\ network.input_buffer # NULL
          /\ network.output_buffer # NULL
          /\ network.gradient_buffer # NULL
          /\ \A i \in DOMAIN network.layers :
                network.layers[i].weights # NULL /\ network.layers[i].biases # NULL

LayerAllocationFailed ==
    /\ CreateReturned
    /\ \E b \in call.null_allocs : b[1] \in {"weights", "biases"}

\* C4: when construction fails because the weights or biases of layer i
\* cannot be allocated, it returns NULL having released, exactly once, every
\* block it obtained: the live blocks are those of before the call.
C4_FailedLayerReleasesAll ==
    LayerAllocationFailed =>
        /\ call.ret = NULL
        /\ live = call.pre_live
        /\ SeqToSet(call.released) = ctor.obtained
        /\ NoDuplicates(call.released)

C4_Witness ==
    /\ LayerAllocationFailed
    /\ call.null_allocs = {BiasesBlock(1)}
    /\ WeightsBlock(1) \in SeqToSet(call.released)
    /\ call.pre_live # {}

\* C5: one agi_destroy_neural_network after a successful construction
\* releases every block the construction obtained, and leaves the
\* allocator's allocation_count - deallocation_count where it was before
\* the construction.
C5_DestroyReleasesAll ==
    (call.op = "destroy" /\ call.status = AGI_SUCCESS) =>
        /\ live = ctor.pre_live
        /\ SeqToSet(call.released) = ctor.obtained
        /\ NoDuplicates(call.released)
        /\ g_memory_stats.allocation_count - g_memory_stats.deallocation_count
              = ctor.pre_stats.allocation_count - ctor.pre_stats.deallocation_count

C5_Witness ==
    /\ call.op = "destroy" /\ call.status = AGI_SUCCESS
    /\ {WeightsBlock(2), BiasesBlock(2)} \cup ScratchBlocks \subseteq ctor.obtained
    /\ ctor.pre_stats.allocation_count - ctor.pre_stats.deallocation_count = 1

\* The largest width in the pipeline of a built network.
LargestWidth(net) ==
    Max({net.config.input_size} \cup {net.layers[i].output_size : i \in DOMAIN net.layers})

\* C6: each scratch buffer of a network just built holds at least as many
\* elements as the largest width in the pipeline.
C6_ScratchHoldsLargestWidth ==
    (CreateReturned /\ call.ret # NULL) =>
        \A b \in {network.input_buffer, network.output_buffer, network.gradient_buffer} \ {NULL} :
            ArrLen(mem[b]) >= LargestWidth(network)

(***************************************************************************)
(* Properties of the forward pass and of training                          *)
(***************************************************************************)
ForwardCalled == call.op = "forward" /\ call.status = AGI_SUCCESS
TrainCalled == call.op = "train" /\ call.status = AGI_SUCCESS

\* C7: on a built network agi_forward_pass returns success and leaves in
\* the caller's output the value of the layers applied in order to the
\* input, y[i] = max(0, sum_j weights[i * input_size + j] * x[j] + biases[i]),
\* for even and for odd layer counts.
C7_ForwardComputesLayers ==
    ForwardCalled => (~crashed /\ call.output = call.expected)

\* C8: agi_forward_pass leaves every layer's weights, biases, input_size and
\* output_size, the layer count and the config as they were.
C8_ForwardKeepsParameters ==
    (ForwardCalled /\ ~crashed) => Frame(network, mem) = call.pre_frame

RECURSIVE SumOfSquares(_, _, _)
SumOfSquares(a, b, n) ==
    IF n = 0 THEN 0
    ELSE (a[n - 1] - b[n - 1]) * (a[n - 1] - b[n - 1]) + SumOfSquares(a, b, n - 1)

\* C9: agi_train_batch returns (1 / output_size) times the sum of the squared
\* differences between target and the output agi_forward_pass produces for
\* the same input, and exactly 0 when the two are equal.
C9_TrainLossIsMeanSquaredError ==
    (TrainCalled /\ ~crashed) =>
        /\ call.loss.den = ArrLen(call.target)
        /\ call.loss.den # 0
        /\ call.loss.num = SumOfSquares(call.target, call.forward_output, ArrLen(call.target))
        /\ call.target = call.forward_output => call.loss.num = 0

\* The network has what C2, C3 and C6 promise: non-zero output width, no
\* absent scratch buffer, every scratch buffer as large as the largest width.
SoundlyBuilt(frame, m) ==
    /\ frame.config.output_size > 0
    /\ ScratchBlocks \subseteq DOMAIN m
    /\ \A b \in ScratchBlocks :
          \A i \in DOMAIN frame.layers :
             /\ ArrLen(m[b]) >= frame.layers[i].output_size
             /\ ArrLen(m[b]) >= frame.config.input_size

\* On soundly built networks the forward pass and the loss are as claimed.
ForwardSoundWhenSoundlyBuilt ==
    (ForwardCalled /\ SoundlyBuilt(call.pre_frame, mem)) =>
        /\ ~crashed /\ ~call.out_of_bounds
        /\ call.output = call.expected
        /\ Frame(network, mem) = call.pre_frame

TrainSoundWhenSoundlyBuilt ==
    (TrainCalled /\ SoundlyBuilt(call.pre_frame, mem)) =>
        /\ ~crashed /\ ~call.out_of_bounds
        /\ call.forward_output = call.expected
        /\ call.loss = [num |-> SumOfSquares(call.target, call.expected, ArrLen(call.target)),
                        den |-> ArrLen(call.target)]
        /\ Frame(network, mem) = call.pre_frame

(***************************************************************************)
(* Properties of the allocator's counters                                  *)
(***************************************************************************)
AllReturned == \A t \in Threads : pc[t] = "idle"

\* C10: for any interleaving of agi_aligned_alloc and agi_aligned_free calls
\* made by several threads, once every call has returned allocation_count
\* is the number of successful allocations, total_memory and used_memory are
\* the sum of their sizes, peak_memory is the largest used_memory reached and
\* deallocation_count is the number of non-null frees.
C10_NoCounterUpdateLost ==
    AllReturned =>
        /\ g_memory_stats.allocation_count = ghost.allocs
        /\ g_memory_stats.total_memory = ghost.bytes
        /\ g_memory_stats.used_memory = ghost.bytes
        /\ g_memory_stats.peak_memory = ghost.max_used
        /\ g_memory_stats.deallocation_count = ghost.frees

(***************************************************************************)
(* Properties of the allocator in single-threaded use                      *)
(***************************************************************************)
AllocCalled == call.op = "aligned_alloc"

\* C11: a successful agi_aligned_alloc(size, alignment) adds size to
\* total_memory and to used_memory and 1 to allocation_count, sets
\* peak_memory to the new used_memory if that exceeds the prior peak and
\* leaves it otherwise, and leaves deallocation_count; a failed allocation
\* (NULL) leaves every counter as it was.
C11_AllocAdvancesCounters ==
    AllocCalled =>
        IF call.ptr # NULL
        THEN /\ g_memory_stats.total_memory = call.pre_stats.total_memory + call.size
             /\ g_memory_stats.used_memory = call.pre_stats.used_memory + call.size
             /\ g_memory_stats.allocation_count = call.pre_stats.allocation_count + 1
             /\ (g_memory_stats.used_memory > call.pre_stats.peak_memory
                    => g_memory_stats.peak_memory = g_memory_stats.used_memory)
             /\ (g_memory_stats.used_memory <= call.pre_stats.peak_memory
                    => g_memory_stats.peak_memory = call.pre_stats.peak_memory)
             /\ g_memory_stats.deallocation_count = call.pre_stats.deallocation_count
        ELSE g_memory_stats = call.pre_stats

\* A second successful allocation, of 2 bytes, after a region was freed
C11_Witness ==
    /\ AllocCalled /\ call.ptr # NULL /\ call.size = 2
    /\ call.pre_stats.used_memory > 0
    /\ call.pre_stats.deallocation_count > 0
    /\ g_memory_stats.peak_memory = call.pre_stats.peak_memory + 2

\* C12: over any sequence of agi_aligned_alloc, agi_aligned_free,
\* agi_get_memory_stats and agi_optimize_memory calls used_memory never
\* decreases; agi_aligned_free on a non-null region adds 1 to
\* deallocation_count and changes no other counter, and on a null region
\* returns AGI_ERROR_NULL_POINTER and changes no counter.
C12_UsedMemoryNeverDecreases ==
    [][ /\ g_memory_stats'.used_memory >= g_memory_stats.used_memory
        /\ (call'.op = "aligned_free" /\ call'.ptr # NULL) =>
              /\ call'.status = AGI_SUCCESS
              /\ g_memory_stats' =
                    [g_memory_stats EXCEPT !.deallocation_count = @ + 1]
        /\ (call'.op = "aligned_free" /\ call'.ptr = NULL) =>
              /\ call'.status = AGI_ERROR_NULL_POINTER
              /\ g_memory_stats' = g_memory_stats ]_vars

\* A region was freed while bytes were counted as used, and they still are
C12_Witness ==
    /\ call.op = "aligned_free" /\ call.ptr # NULL
    /\ call.pre_stats.used_memory = 3
    /\ g_memory_stats.used_memory = 3
    /\ g_memory_stats.deallocation_count = 2
    /\ live # {}

(***************************************************************************)
(* Properties of the matrix-multiply kernel                                *)
(***************************************************************************)
RECURSIVE DotProduct(_, _, _, _, _, _, _)
DotProduct(a, b, i, j, n, k, t) ==
    IF t = 0 THEN 0
    ELSE a[i * k + (t - 1)] * b[(t - 1) * n + j] + DotProduct(a, b, i, j, n, k, t - 1)

\* C13: for non-absent a (m x k), b (k x n) and result,
\* agi_matrix_multiply_simd returns success and leaves result[i,j] equal to
\* the sum over t < k of a[i,t] * b[t,j], for every i < m and j < n.
C13_MatrixMultiplyComputesProduct ==
    (call.op = "matrix_multiply_simd" /\ call.config_present) =>
        /\ call.status = AGI_SUCCESS
        /\ \A i \in 0..(call.dims.m - 1), j \in 0..(call.dims.n - 1) :
              call.result[i * call.dims.n + j]
                 = DotProduct(call.a, call.b, i, j, call.dims.n, call.dims.k, call.dims.k)

(***************************************************************************)
(* Properties of the index arithmetic of construction and of the forward   *)
(* pass                                                                    *)
(***************************************************************************)
\* The widths the caller supplied: input_size, output_size and the first
\* hidden_layers_count entries of hidden_layer_sizes.
SuppliedWidths(cfg) ==
    {cfg.input_size, cfg.output_size}
    \cup {cfg.hidden_layer_sizes[i] :
            i \in (0..(cfg.hidden_layers_count - 1)) \cap DOMAIN cfg.hidden_layer_sizes}

\* C14: during agi_create_neural_network every read of
\* config.hidden_layer_sizes uses an index strictly below
\* config.hidden_layers_count, for every hidden_layers_count >= 0; so the
\* width of each of the H + 2 layers is input_size, output_size or one of the
\* H supplied hidden widths.
C14_HiddenReadsBelowCount ==
    (CreateReturned /\ call.config_present) =>
        /\ \A idx \in call.hidden_reads : idx < call.cfg.hidden_layers_count
        /\ call.ret # NULL =>
              \A i \in DOMAIN network.layers :
                 network.layers[i].output_size \in SuppliedWidths(call.cfg)

\* C15: for every network agi_create_neural_network can return, every
\* element agi_forward_pass (scalar path) reads or writes lies within the
\* allocated extent of the buffer it indexes: the layer->output_size writes
\* into the current output scratch buffer, the reads of the current input
\* and the final copy of config.output_size elements.  (A weights block has
\* input_size * output_size elements and a biases block output_size, the
\* very bounds of the loops that index them.)
C15_ForwardStaysInBounds ==
    ForwardCalled => (~call.out_of_bounds /\ ~crashed)

StatsCalled == call.op = "get_memory_stats" /\ call.config_present

\* C16: in single-threaded use, after any sequence of allocator operations
\* peak_memory = used_memory = total_memory, so the fragmentation_ratio
\* agi_get_memory_stats returns is 0 however many regions were freed; and
\* agi_get_memory_stats changes no global counter.
C16_FragmentationAlwaysZero ==
    /\ g_memory_stats.peak_memory = g_memory_stats.used_memory
    /\ g_memory_stats.used_memory = g_memory_stats.total_memory
    /\ StatsCalled =>
          /\ call.status = AGI_SUCCESS
          /\ call.snapshot.fragmentation_ratio.num = 0
          /\ call.snapshot.fragmentation_ratio.den # 0
          /\ call.snapshot.peak_memory = g_memory_stats.peak_memory
          /\ call.snapshot.used_memory = g_memory_stats.used_memory
          /\ g_memory_stats = call.pre_stats
    /\ (call.op = "get_memory_stats" /\ ~call.config_present) =>
          g_memory_stats = call.pre_stats

\* A snapshot taken after three allocations and two frees
C16_Witness ==
    /\ StatsCalled
    /\ g_memory_stats.allocation_count = 3
    /\ g_memory_stats.deallocation_count = 2
    /\ g_memory_stats.peak_memory > 2
    /\ call.snapshot.fragmentation_ratio = [num |-> 0, den |-> g_memory_stats.peak_memory]

====
